---- MODULE Spec2Model ----
(***************************************************************************)
(* A model of src/database.py: DatabaseManager (the loader, the query      *)
(* executor, the metadata inspector, close) over a store of six tables,    *)
(* and the query templates of SQLQueries whose row semantics the           *)
(* properties below are about.                                             *)
(***************************************************************************)
EXTENDS Integers, Sequences, FiniteSets, TLC

(***************************************************************************)
(* Bounds of the model.                                                    *)
(***************************************************************************)
\* how many times the source directory is edited between loads
MaxEdits == 2
\* how many times create_database is called
MaxLoads == 3

(***************************************************************************)
(* The table map of create_database (database.py:20-27), in map order.     *)
(***************************************************************************)
TableOrder ==
    << "grants", "grants_final", "non_profits", "non_profits_final",
       "nonprofit_anomalies", "nonprofit_quality" >>

csv_files ==
    [ grants              |-> "grants.csv",
      grants_final        |-> "grants_final.csv",
      non_profits         |-> "non-profits.csv",
      non_profits_final   |-> "non-profits_final.csv",
      nonprofit_anomalies |-> "nonprofit_anomalies.csv",
      nonprofit_quality   |-> "nonprofit_quality.csv" ]

Tables == { TableOrder[i] : i \in 1..Len(TableOrder) }

FileNames == { csv_files[t] : t \in Tables }

(***************************************************************************)
(* Files of the source directory.  A file is a sequence of lines, a line a *)
(* sequence of fields; NoFile stands for a path that does not exist.       *)
(***************************************************************************)
NoFile == [ exists |-> FALSE ]

File(lines) == [ exists |-> TRUE, lines |-> lines ]

\* a file of zero bytes: read_csv finds no columns to parse
EmptyFile == File(<< >>)
\* a header line and no record
HeaderOnly == File(<< <<"EIN">> >>)
\* a header line and one record
OneRecord == File(<< <<"EIN">>, <<"11">> >>)

CsvTexts == { EmptyFile, HeaderOnly, OneRecord }

FileStates == { NoFile } \cup CsvTexts

(***************************************************************************)
(* pd.read_csv (database.py:35): the first line names the columns, every   *)
(* other line is a record; a file with no line at all cannot be parsed.    *)
(***************************************************************************)
ParseError == [ error |-> "ParseError" ]

read_csv(file) ==
    IF Len(file.lines) = 0
    THEN ParseError
    ELSE [ columns |-> Head(file.lines), rows |-> Tail(file.lines) ]

(***************************************************************************)
(* The store: every logical table name is absent (NoTable) or holds the    *)
(* columns and rows written by to_sql.                                     *)
(***************************************************************************)
NoTable == [ columns |-> << >>, absent |-> TRUE ]

\* a mis-written to_sql that appends to an existing table
to_sql_append(st, table_name, df) ==
    IF st[table_name] = NoTable
    THEN [ st EXCEPT ![table_name] = df ]
    ELSE [ st EXCEPT ![table_name] =
              [ columns |-> st[table_name].columns,
                rows    |-> st[table_name].rows \o df.rows ] ]

\* df.to_sql(table_name, conn, if_exists='replace', index=False)
to_sql(st, table_name, df) ==
    [ st EXCEPT ![table_name] = df ]

TablesIn(st) == { t \in Tables : st[t] # NoTable }

(***************************************************************************)
(* Query texts are abstracted, for the manager, to the set of tables they  *)
(* read: the one-table statements of get_table_info and the FROM / JOIN    *)
(* clauses of the catalog.                                                 *)
(***************************************************************************)
\* top_performers, high_risk_organizations, grant_nonprofit_matching
JoinQueries ==
    { {"non_profits_final", "nonprofit_quality"},
      {"non_profits_final", "nonprofit_anomalies"},
      {"grants", "non_profits_final"} }

Queries == { {t} : t \in Tables } \cup JoinQueries

\* top_performers, high_risk_organizations: the joins on EIN
ReaderQueries ==
    { {"non_profits_final", "nonprofit_quality"},
      {"non_profits_final", "nonprofit_anomalies"} }

\* get_table_info samples the first five rows (database.py:65)
SampleSize == 5

Mgrs == { "m1", "m2" }

Idle == [ op |-> "idle" ]

VARIABLES
    dir,        \* the source directory: file name -> file
    store,      \* the database file: table name -> NoTable or its content
    conn,       \* self.conn of each manager: "none", "open" or "closed"
    connects,   \* how many times each manager called sqlite3.connect
    call,       \* the call each manager is in, and its position in it
    res,        \* what the last call of each manager returned or raised, once it has
    visited,    \* the map entries the latest load pass has visited, in order
    startStore, \* the store as the latest load pass found it
    written,    \* the tables some load pass has written so far
    lastLoad,   \* the directory and the store at the end of the latest finished load
    loads,      \* number of create_database calls so far
    edits,      \* number of edits of the source directory so far
    db,         \* the rows of the tables the catalog's queries read
    answer      \* the catalog query run last, and the rows it returned

vars == << dir, store, conn, connects, call, res, visited,
           startStore, written, lastLoad, loads, edits, db, answer >>

\* what the manager's methods never touch: the history, and the rows the
\* catalog's queries are run on
ghost == << visited, startStore, written, lastLoad >>

qvars == << db, answer >>

mvars == << dir, store, conn, connects, call, res, visited,
            startStore, written, lastLoad, loads, edits >>

NoResult == [ op |-> "none" ]

NoLoad == [ done |-> FALSE ]

\* repeat: the load before this one found the same directory
Loaded(d, st, before) ==
    [ done |-> TRUE, dir |-> d, store |-> st,
      repeat |-> before.done /\ before.dir = d ]

NoRows ==
    [ grants |-> << >>, non_profits_final |-> << >>,
      nonprofit_quality |-> << >>, nonprofit_anomalies |-> << >> ]

NoOutput == [ query |-> "none" ]

\* a manager just constructed (database.py:9-11), before any call
Fresh ==
    /\ conn = [ m \in Mgrs |-> "none" ]
    /\ connects = [ m \in Mgrs |-> 0 ]
    /\ call = [ m \in Mgrs |-> Idle ]
    /\ res = [ m \in Mgrs |-> NoResult ]
    /\ visited = << >>
    /\ written = {}
    /\ lastLoad = NoLoad
    /\ loads = 0
    /\ edits = 0

\* The source directory starts with none of the six files, or with all of
\* them, a record in each.
Init ==
    /\ dir \in { [ f \in FileNames |-> NoFile ], [ f \in FileNames |-> OneRecord ] }
    /\ store = [ t \in Tables |-> NoTable ]
    /\ startStore = store
    /\ Fresh
    /\ db = NoRows
    /\ answer = NoOutput

Loading == \E m \in Mgrs : call[m].op = "create_database"

(***************************************************************************)
(* The environment: between loads, one file of the source directory is     *)
(* created, rewritten or removed.                                          *)
(***************************************************************************)
EditFile(f, c) ==
    /\ ~Loading
    /\ edits < MaxEdits
    /\ dir[f] # c
    /\ dir' = [ dir EXCEPT ![f] = c ]
    /\ edits' = edits + 1
    /\ UNCHANGED << store, conn, connects, call, res, loads, ghost, qvars >>

(***************************************************************************)
(* create_database (database.py:13-44).                                    *)
(***************************************************************************)
\* lines 15-27: connect, unconditionally, and start the pass over the map
CreateDatabaseBegin(m) ==
    /\ call[m] = Idle
    /\ ~Loading
    /\ loads < MaxLoads
    /\ conn' = [ conn EXCEPT ![m] = "open" ]
    /\ connects' = [ connects EXCEPT ![m] = @ + 1 ]
    /\ call' = [ call EXCEPT ![m] = [ op |-> "create_database", i |-> 1 ] ]
    /\ loads' = loads + 1
    /\ visited' = << >>
    /\ res' = [ res EXCEPT ![m] = NoResult ]
    /\ startStore' = store
    /\ UNCHANGED << dir, store, written, lastLoad, edits, qvars >>

\* a mis-written loop that drops the table of a missing file
LoadEntryDropping(st, d, table_name) ==
    LET filepath == csv_files[table_name] IN
    IF d[filepath] = NoFile
    THEN [ st EXCEPT ![table_name] = NoTable ]
    ELSE to_sql(st, table_name, read_csv(d[filepath]))

\* a mis-written loop that creates an empty table for a missing file
LoadEntryPlaceholder(st, d, table_name) ==
    LET filepath == csv_files[table_name] IN
    IF d[filepath] = NoFile
    THEN to_sql(st, table_name, [ columns |-> << >>, rows |-> << >> ])
    ELSE to_sql(st, table_name, read_csv(d[filepath]))

\* what one iteration of the loop does to the store when nothing raises
\* (lines 30-40): a missing file is skipped, a present one replaces its table
LoadEntry(st, d, table_name) ==
    LET filepath == csv_files[table_name] IN
    IF d[filepath] = NoFile
    THEN st
    ELSE to_sql(st, table_name, read_csv(d[filepath]))

\* the store a whole pass over d leaves, from an empty store: the loop of
\* lines 29-40 up to its end or to the first file that cannot be parsed
RECURSIVE LoadFrom(_, _, _)
LoadFrom(st, d, i) ==
    IF i > Len(TableOrder)
    THEN st
    ELSE LET f == d[csv_files[TableOrder[i]]]
         IN  IF f # NoFile /\ read_csv(f) = ParseError
             THEN st
             ELSE LoadFrom(LoadEntry(st, d, TableOrder[i]), d, i + 1)

LoadPass(d) == LoadFrom([ t \in Tables |-> NoTable ], d, 1)

\* a mis-written replace that drops the old table before the file is parsed
FailedEntryDropping(st, table_name) ==
    [ st EXCEPT ![table_name] = NoTable ]

\* the store when read_csv raises at line 35: line 36 never runs, and
\* nothing undoes the iterations before
FailedEntry(st, table_name) == st

\* one iteration of the loop of lines 29-40
CreateDatabaseStep(m) ==
    /\ call[m].op = "create_database"
    /\ call[m].i <= Len(TableOrder)
    /\ LET table_name == TableOrder[call[m].i]
           filepath   == csv_files[table_name]
       IN  /\ visited' = Append(visited, table_name)
           /\ IF dir[filepath] # NoFile /\ read_csv(dir[filepath]) = ParseError
              THEN \* line 35 raises: the call ends here
                   /\ call' = [ call EXCEPT ![m] = Idle ]
                   /\ res' = [ res EXCEPT ![m] =
                                 [ op |-> "create_database", status |-> "ParseError",
                                   at |-> table_name ] ]
                   /\ store' = FailedEntry(store, table_name)
                   /\ lastLoad' = Loaded(dir, store', lastLoad)
                   /\ UNCHANGED written
              ELSE /\ store' = LoadEntry(store, dir, table_name)
                   /\ written' = IF dir[filepath] # NoFile
                                 THEN written \cup { table_name }
                                 ELSE written
                   /\ call' = [ call EXCEPT ![m].i = @ + 1 ]
                   /\ UNCHANGED << res, lastLoad >>
    /\ UNCHANGED << dir, conn, connects, startStore, loads, edits, qvars >>

\* lines 42-44: the pass is over, the connection is returned
CreateDatabaseReturn(m) ==
    /\ call[m].op = "create_database"
    /\ call[m].i > Len(TableOrder)
    /\ call' = [ call EXCEPT ![m] = Idle ]
    /\ res' = [ res EXCEPT ![m] =
                  [ op |-> "create_database", status |-> "ok" ] ]
    /\ lastLoad' = Loaded(dir, store, lastLoad)
    /\ UNCHANGED << dir, store, conn, connects, visited, startStore,
                    written, loads, edits, qvars >>

(***************************************************************************)
(* execute_query (database.py:46-52).                                      *)
(***************************************************************************)
\* a store that shows its readers, during a load, the tables as the load
\* found them
read_sql_query_isolated(q, c, st) ==
    LET seen == IF Loading THEN startStore ELSE st
    IN  IF c = "closed"
        THEN [ status |-> "ClosedConnection" ]
        ELSE IF \E t \in q : seen[t] = NoTable
             THEN [ status |-> "NoSuchTable" ]
             ELSE [ status |-> "ok", view |-> [ t \in q |-> seen[t] ] ]

\* what pd.read_sql_query(query, self.conn) returns or raises on connection
\* state c: the content of the tables the query reads, in the store as it is
\* when the statement runs
read_sql_query(q, c, st) ==
    IF c = "closed"
    THEN [ status |-> "ClosedConnection" ]
    ELSE IF \E t \in q : st[t] = NoTable
         THEN [ status |-> "NoSuchTable" ]
         ELSE [ status |-> "ok", view |-> [ t \in q |-> st[t] ] ]

\* a mis-written execute_query that connects at every call
LazyConnectAlways(c) == "open"

\* lines 49-50: connect only when no connection object is held
LazyConnect(c) == IF c = "none" THEN "open" ELSE c

ConnectCount(c) == IF c = "none" THEN 1 ELSE 0

ExecuteQuery(m, q) ==
    /\ call[m] = Idle
    /\ conn' = [ conn EXCEPT ![m] = LazyConnect(conn[m]) ]
    /\ connects' = [ connects EXCEPT ![m] = @ + ConnectCount(conn[m]) ]
    /\ res' = [ res EXCEPT ![m] =
                  [ op |-> "execute_query", query |-> q,
                    out |-> read_sql_query(q, LazyConnect(conn[m]), store) ] ]
    /\ UNCHANGED << dir, store, call, loads, edits, ghost, qvars >>

(***************************************************************************)
(* get_table_info (database.py:54-72): three statements, each through      *)
(* execute_query; a statement that raises ends the call.                   *)
(***************************************************************************)
\* PRAGMA table_info(t): one descriptor per column, none for an absent table
table_info(c, st, t) ==
    IF c = "closed"
    THEN [ status |-> "ClosedConnection" ]
    ELSE [ status |-> "ok", columns |-> st[t].columns ]

\* the first five rows
Sample(rows) == SubSeq(rows, 1, IF Len(rows) < SampleSize THEN Len(rows) ELSE SampleSize)

\* lines 57-58: SELECT COUNT(*) as count FROM t
GetTableInfoCount(m, t) ==
    /\ call[m] = Idle
    /\ conn' = [ conn EXCEPT ![m] = LazyConnect(conn[m]) ]
    /\ connects' = [ connects EXCEPT ![m] = @ + ConnectCount(conn[m]) ]
    /\ LET out == read_sql_query({t}, LazyConnect(conn[m]), store)
       IN  IF out.status = "ok"
           THEN /\ call' = [ call EXCEPT ![m] =
                               [ op |-> "get_table_info", table |-> t, step |-> "columns",
                                 row_count |-> Len(out.view[t].rows) ] ]
                /\ UNCHANGED res
           ELSE /\ res' = [ res EXCEPT ![m] =
                              [ op |-> "get_table_info", table |-> t, out |-> out ] ]
                /\ UNCHANGED call
    /\ UNCHANGED << dir, store, loads, edits, ghost, qvars >>

\* lines 61-62: PRAGMA table_info(t)
GetTableInfoColumns(m) ==
    /\ call[m].op = "get_table_info"
    /\ call[m].step = "columns"
    /\ LET out == table_info(conn[m], store, call[m].table)
       IN  IF out.status = "ok"
           THEN /\ call' = [ call EXCEPT ![m] =
                               [ op |-> "get_table_info", table |-> call[m].table,
                                 step |-> "sample", row_count |-> call[m].row_count,
                                 columns |-> out.columns ] ]
                /\ UNCHANGED res
           ELSE /\ res' = [ res EXCEPT ![m] =
                              [ op |-> "get_table_info", table |-> call[m].table,
                                out |-> out ] ]
                /\ call' = [ call EXCEPT ![m] = Idle ]
    /\ UNCHANGED << dir, store, conn, connects, loads, edits, ghost, qvars >>

\* lines 65-72: SELECT * FROM t LIMIT 5, and the dictionary returned
GetTableInfoSample(m) ==
    /\ call[m].op = "get_table_info"
    /\ call[m].step = "sample"
    /\ LET out == read_sql_query({call[m].table}, conn[m], store)
       IN  res' = [ res EXCEPT ![m] =
                      [ op |-> "get_table_info", table |-> call[m].table,
                        out |-> IF out.status = "ok"
                                THEN [ status |-> "ok",
                                       row_count |-> call[m].row_count,
                                       columns |-> call[m].columns,
                                       sample_data |->
                                           Sample(out.view[call[m].table].rows) ]
                                ELSE out ] ]
    /\ call' = [ call EXCEPT ![m] = Idle ]
    /\ UNCHANGED << dir, store, conn, connects, loads, edits, ghost, qvars >>

(***************************************************************************)
(* close (database.py:74-78): the connection is closed, self.conn is left  *)
(* holding the closed connection object.                                   *)
(***************************************************************************)
\* a mis-written close that also forgets the connection object
CloseAndForget(c) == "none"

CloseConn(c) == IF c = "none" THEN "none" ELSE "closed"

Close(m) ==
    /\ call[m] = Idle
    /\ conn' = [ conn EXCEPT ![m] = CloseConn(conn[m]) ]
    /\ res' = [ res EXCEPT ![m] = [ op |-> "close", held |-> conn[m] # "none" ] ]
    /\ UNCHANGED << dir, store, connects, call, loads, edits, ghost, qvars >>

(***************************************************************************)
(* The rows the catalog's queries read.  A column value is NULL or one     *)
(* value; rows are kept in table order.                                    *)
(***************************************************************************)
NULL == << >>

Val(v) == << v >>

\* how many rows grants and non_profits_final hold at most
MaxRows == 2
\* how many rows nonprofit_quality and nonprofit_anomalies hold at most, for
\* the joins
MaxAnnotations == 1
\* how many rows nonprofit_quality holds at most, for data_quality_overview
MaxTierRows == 4

SeqsUpTo(S, n) == UNION { [ 1..k -> S ] : k \in 0..n }

Eins == { NULL, Val(1), Val(2) }

Scores == { NULL, Val(1), Val(2) }

GrantRows ==
    [ opportunity_title : { Val("title") }, award_ceiling : Scores ]

OrgRows ==
    [ NAME : { Val("org") }, EIN : Eins, impact_score_numeric : Scores ]

QualityRows ==
    [ EIN : Eins, data_quality : { Val("high") }, confidence_score : { Val(1) },
      has_mission : { Val(1) }, has_financial : { Val(1) }, has_impact : { Val(1) } ]

AnomalyRows ==
    [ EIN : Eins, is_anomalous : { Val(0), Val(1) },
      risk_level : { Val("high"), Val("low") },
      anomaly_type : { Val("type") }, anomaly_score : { Val(1) } ]

\* the values of data_quality: the three tiers, two values that are no tier
\* (one of them a tier in another case), and NULL
Tiers ==
    { Val("high"), Val("medium"), Val("low"), Val("High"), Val("unknown"), NULL }

TierRows ==
    [ EIN : { Val(1) }, data_quality : Tiers, confidence_score : { Val(1) },
      has_mission : { Val(1) }, has_financial : { Val(1) }, has_impact : { Val(0) } ]

(***************************************************************************)
(* Query text.  A template with a limit writes the integer into the text   *)
(* in decimal (the f-strings of database.py:91-103 and 185-202), and the   *)
(* store reads it back from the text.                                      *)
(***************************************************************************)
Digits == << "0", "1", "2", "3", "4", "5", "6", "7", "8", "9" >>

RECURSIVE str_nat(_)
str_nat(n) ==
    IF n < 10
    THEN << Digits[n + 1] >>
    ELSE Append(str_nat(n \div 10), Digits[(n % 10) + 1])

\* str(limit), as the f-string formats it
str(n) == IF n < 0 THEN << "-" >> \o str_nat(0 - n) ELSE str_nat(n)

DigitValue(c) == CHOOSE d \in 0..9 : Digits[d + 1] = c

RECURSIVE int_nat(_)
int_nat(text) ==
    IF Len(text) = 0
    THEN 0
    ELSE 10 * int_nat(SubSeq(text, 1, Len(text) - 1)) + DigitValue(text[Len(text)])

\* the integer the store reads after LIMIT
int(text) ==
    IF Head(text) = "-" THEN 0 - int_nat(Tail(text)) ELSE int_nat(text)

\* database.py:88-103
top_grants_by_funding(limit) ==
    [ query |-> "top_grants_by_funding", limit |-> str(limit) ]

\* database.py:182-202
top_performers(limit) ==
    [ query |-> "top_performers", limit |-> str(limit) ]

\* database.py:222-241
high_risk_organizations ==
    [ query |-> "high_risk_organizations", limit |-> str(50) ]

\* database.py:159-180
data_quality_overview == [ query |-> "data_quality_overview" ]

(***************************************************************************)
(* What the store does with the clauses of these queries.                  *)
(***************************************************************************)
\* ORDER BY: a comes no later than b.  NULL is the smallest value, first in
\* ascending and last in descending order.
NotAfter(a, b, direction) ==
    IF direction = "DESC"
    THEN b = NULL \/ (a # NULL /\ a[1] >= b[1])
    ELSE a = NULL \/ (b # NULL /\ a[1] <= b[1])

\* every order of the elements of S that ORDER BY key allows: rows with equal
\* keys come in any order
RECURSIVE Sorted(_, _, _)
Sorted(S, key, direction) ==
    IF S = {}
    THEN { << >> }
    ELSE UNION { { << x >> \o rest : rest \in Sorted(S \ { x }, key, direction) } :
                 x \in { y \in S : \A z \in S : NotAfter(key[y], key[z], direction) } }

\* a LIMIT that caps nothing
LimitIgnored(rows, k) == rows

\* LIMIT k: the first k rows; a negative k is no limit
Limit(rows, k) ==
    IF k < 0 \/ k >= Len(rows) THEN rows ELSE SubSeq(rows, 1, k)

\* a = b in ON and WHERE: never true of a NULL
Eq(a, b) == a # NULL /\ b # NULL /\ a = b

\* an inner join where the left join is meant
LeftJoinInner(left, right) ==
    { << i, j >> \in (DOMAIN left) \X (DOMAIN right) : Eq(left[i].EIN, right[j].EIN) }

\* left LEFT JOIN right ON left.EIN = right.EIN, as pairs of row numbers;
\* 0 stands for the NULL row that joins a left row nothing matches
LeftJoin(left, right) ==
    { << i, j >> \in (DOMAIN left) \X (DOMAIN right) : Eq(left[i].EIN, right[j].EIN) }
    \cup
    { << i, 0 >> : i \in { k \in DOMAIN left :
                             \A j \in DOMAIN right : ~Eq(left[k].EIN, right[j].EIN) } }

\* left INNER JOIN right ON left.EIN = right.EIN
InnerJoin(left, right) ==
    { << i, j >> \in (DOMAIN left) \X (DOMAIN right) : Eq(left[i].EIN, right[j].EIN) }

\* a tier order that follows the alphabet
TierRankAlphabetical(v) ==
    CASE v = Val("high")   -> 1
      [] v = Val("low")    -> 2
      [] v = Val("medium") -> 3
      [] OTHER             -> 4

\* the CASE of database.py:174-179
TierRank(v) ==
    CASE v = Val("high")   -> 1
      [] v = Val("medium") -> 2
      [] v = Val("low")    -> 3
      [] OTHER             -> 4

(***************************************************************************)
(* The rows each query returns, before ORDER BY and LIMIT, and the orders  *)
(* ORDER BY allows.  A row carries, beside the selected columns, the       *)
(* numbers of the table rows it was joined from.                           *)
(***************************************************************************)
\* FROM grants WHERE award_ceiling IS NOT NULL ORDER BY award_ceiling DESC
TopGrantsSorted(d) ==
    LET hits == { i \in DOMAIN d.grants : d.grants[i].award_ceiling # NULL }
        key  == [ i \in hits |-> d.grants[i].award_ceiling ]
    IN  { [ n \in DOMAIN order |->
              [ opportunity_title |-> d.grants[order[n]].opportunity_title,
                award_ceiling     |-> d.grants[order[n]].award_ceiling,
                grants_row        |-> order[n] ] ] :
          order \in Sorted(hits, key, "DESC") }

\* FROM non_profits_final nf LEFT JOIN nonprofit_quality nq ON nf.EIN = nq.EIN
\* WHERE nf.impact_score_numeric IS NOT NULL ORDER BY nf.impact_score_numeric DESC
TopPerformersSorted(d) ==
    LET nf   == d.non_profits_final
        nq   == d.nonprofit_quality
        hits == { p \in LeftJoin(nf, nq) : nf[p[1]].impact_score_numeric # NULL }
        key  == [ p \in hits |-> nf[p[1]].impact_score_numeric ]
    IN  { [ n \in DOMAIN order |->
              [ NAME                 |-> nf[order[n][1]].NAME,
                impact_score_numeric |-> nf[order[n][1]].impact_score_numeric,
                confidence_score     |-> IF order[n][2] = 0
                                         THEN NULL
                                         ELSE nq[order[n][2]].confidence_score,
                nf_row               |-> order[n][1],
                nq_row               |-> order[n][2] ] ] :
          order \in Sorted(hits, key, "DESC") }

\* FROM non_profits_final nf INNER JOIN nonprofit_anomalies na ON nf.EIN = na.EIN
\* WHERE na.is_anomalous = 1 AND na.risk_level = 'high'
\* ORDER BY na.anomaly_score DESC
HighRiskSorted(d) ==
    LET nf   == d.non_profits_final
        na   == d.nonprofit_anomalies
        hits == { p \in InnerJoin(nf, na) :
                    /\ Eq(na[p[2]].is_anomalous, Val(1))
                    /\ Eq(na[p[2]].risk_level, Val("high")) }
        key  == [ p \in hits |-> na[p[2]].anomaly_score ]
    IN  { [ n \in DOMAIN order |->
              [ NAME          |-> nf[order[n][1]].NAME,
                anomaly_type  |-> na[order[n][2]].anomaly_type,
                risk_level    |-> na[order[n][2]].risk_level,
                anomaly_score |-> na[order[n][2]].anomaly_score,
                nf_row        |-> order[n][1],
                na_row        |-> order[n][2] ] ] :
          order \in Sorted(hits, key, "DESC") }

\* SUM over the rows numbered in S of the column value v[i], NULL counted as 0
RECURSIVE Sum(_, _)
Sum(S, v) ==
    IF S = {}
    THEN 0
    ELSE LET i == CHOOSE x \in S : TRUE
         IN  (IF v[i] = NULL THEN 0 ELSE v[i][1]) + Sum(S \ { i }, v)

\* FROM nonprofit_quality GROUP BY data_quality ORDER BY CASE data_quality ...
\* AVG is given as the sum and the number of the values it averages.
DataQualitySorted(d) ==
    LET nq     == d.nonprofit_quality
        groups == { nq[i].data_quality : i \in DOMAIN nq }
        of(g)  == { i \in DOMAIN nq : nq[i].data_quality = g }
        flag(g, column) ==
            Cardinality({ i \in of(g) : Eq(nq[i][column], Val(1)) })
        key    == [ g \in groups |-> Val(TierRank(g)) ]
    IN  { [ n \in DOMAIN order |->
              LET g == order[n] IN
              [ data_quality        |-> g,
                org_count           |-> Cardinality(of(g)),
                avg_confidence      |->
                    [ sum |-> Sum(of(g), [ i \in of(g) |-> nq[i].confidence_score ]),
                      of  |-> Cardinality({ i \in of(g) : nq[i].confidence_score # NULL }) ],
                orgs_with_mission   |-> flag(g, "has_mission"),
                orgs_with_financial |-> flag(g, "has_financial"),
                orgs_with_impact    |-> flag(g, "has_impact"),
                mission_pct         |->
                    [ sum |-> 100 * flag(g, "has_mission"), of |-> Cardinality(of(g)) ] ] ] :
          order \in Sorted(groups, key, "ASC") }

\* the rows the store returns for a query text: any of the orders ORDER BY
\* allows, cut by LIMIT
Execute(text, d) ==
    CASE text.query = "top_grants_by_funding" ->
            { Limit(rows, int(text.limit)) : rows \in TopGrantsSorted(d) }
      [] text.query = "top_performers" ->
            { Limit(rows, int(text.limit)) : rows \in TopPerformersSorted(d) }
      [] text.query = "high_risk_organizations" ->
            { Limit(rows, int(text.limit)) : rows \in HighRiskSorted(d) }
      [] text.query = "data_quality_overview" ->
            DataQualitySorted(d)

(***************************************************************************)
(* Running the catalog's queries on a store of given rows.                 *)
(***************************************************************************)
\* the limits a caller passes
Limits == (0 - 1)..(MaxRows + 1)

\* one query is run on each content of the store
Run(text, limit) ==
    /\ answer = NoOutput
    /\ \E rows \in Execute(text, db) :
          answer' = [ query |-> text.query, limit |-> limit, rows |-> rows ]
    /\ UNCHANGED << db, mvars >>

RunTopGrants(limit) == Run(top_grants_by_funding(limit), limit)

RunTopPerformers(limit) == Run(top_performers(limit), limit)

RunHighRisk == Run(high_risk_organizations, 50)

RunDataQuality == Run(data_quality_overview, 0)

(***************************************************************************)
(* Specifications.                                                         *)
(***************************************************************************)
CreateDatabase(m) ==
    \/ CreateDatabaseBegin(m)
    \/ CreateDatabaseStep(m)
    \/ CreateDatabaseReturn(m)

GetTableInfo(m) ==
    \/ \E t \in Tables : GetTableInfoCount(m, t)
    \/ GetTableInfoColumns(m)
    \/ GetTableInfoSample(m)

\* The loader: one manager loads again and again a directory that is edited
\* between the loads.
Next ==
    \/ \E f \in FileNames, c \in FileStates : EditFile(f, c)
    \/ CreateDatabase("m1")

Spec == Init /\ [][Next]_vars

\* One manager's lifetime over a source directory: every method, in any
\* order.  Each file is missing or has a record, and at most one file is
\* unparsable (a pass ends at the first one it meets).  The store is a new
\* file, or the file an earlier process left after loading the same directory.
InitApi ==
    /\ dir \in { d \in [ FileNames -> { NoFile, EmptyFile, OneRecord } ] :
                   Cardinality({ f \in FileNames : d[f] = EmptyFile }) <= 1 }
    /\ store \in { [ t \in Tables |-> NoTable ], LoadPass(dir) }
    /\ startStore = store
    /\ Fresh
    /\ db = NoRows
    /\ answer = NoOutput

NextApi ==
    \/ CreateDatabase("m1")
    \/ \E q \in Queries : ExecuteQuery("m1", q)
    \/ GetTableInfo("m1")
    \/ Close("m1")

SpecApi == InitApi /\ [][NextApi]_vars

\* Two processes on one store path: m1 loads, m2 runs the catalog's queries
\* that join on EIN.  The source directory starts with all six files.
InitRW ==
    /\ Init
    /\ dir = [ f \in FileNames |-> OneRecord ]

NextRW ==
    \/ \E f \in FileNames, c \in FileStates : EditFile(f, c)
    \/ CreateDatabase("m1")
    \/ \E q \in ReaderQueries : ExecuteQuery("m2", q)

SpecRW == InitRW /\ [][NextRW]_vars

\* no file, no table, no manager at work
Unloaded ==
    /\ dir = [ f \in FileNames |-> NoFile ]
    /\ store = [ t \in Tables |-> NoTable ]
    /\ startStore = store
    /\ Fresh

\* The queries with a limit, on any grants or on any organizations with
\* their quality rows.
InitLimit ==
    /\ Unloaded
    /\ answer = NoOutput
    /\ \/ \E g \in SeqsUpTo(GrantRows, MaxRows) :
             db = [ grants |-> g, non_profits_final |-> << >>,
                    nonprofit_quality |-> << >>, nonprofit_anomalies |-> << >> ]
       \/ \E nf \in SeqsUpTo(OrgRows, MaxRows), nq \in SeqsUpTo(QualityRows, MaxAnnotations) :
             db = [ grants |-> << >>, non_profits_final |-> nf,
                    nonprofit_quality |-> nq, nonprofit_anomalies |-> << >> ]

NextLimit ==
    \/ \E k \in Limits : RunTopGrants(k)
    \/ \E k \in Limits : RunTopPerformers(k)

SpecLimit == InitLimit /\ [][NextLimit]_vars

\* The two joins, on any organizations with their quality rows or with their
\* anomaly rows.
InitJoin ==
    /\ Unloaded
    /\ answer = NoOutput
    /\ \E nf \in SeqsUpTo(OrgRows, MaxRows) :
          \/ \E nq \in SeqsUpTo(QualityRows, MaxAnnotations) :
                db = [ grants |-> << >>, non_profits_final |-> nf,
                       nonprofit_quality |-> nq, nonprofit_anomalies |-> << >> ]
          \/ \E na \in SeqsUpTo(AnomalyRows, MaxAnnotations) :
                db = [ grants |-> << >>, non_profits_final |-> nf,
                       nonprofit_quality |-> << >>, nonprofit_anomalies |-> na ]

NextJoin ==
    \/ RunTopPerformers(25)
    \/ RunHighRisk

SpecJoin == InitJoin /\ [][NextJoin]_vars

\* data_quality_overview, on quality rows of any tiers in any order.
InitTier ==
    /\ Unloaded
    /\ answer = NoOutput
    /\ \E nq \in SeqsUpTo(TierRows, MaxTierRows) :
          db = [ grants |-> << >>, non_profits_final |-> << >>,
                 nonprofit_quality |-> nq, nonprofit_anomalies |-> << >> ]

NextTier == RunDataQuality

SpecTier == InitTier /\ [][NextTier]_vars

(***************************************************************************)
(* Properties of the loader.                                               *)
(***************************************************************************)
Present(d) == { t \in Tables : d[csv_files[t]] # NoFile }

Position(t) == CHOOSE i \in 1..Len(TableOrder) : TableOrder[i] = t

Finished(m) == call[m] = Idle /\ res[m].op = "create_database"

\* C1, as stated: after a load that came to its end, the tables of the store
\* are exactly the logical names whose file was there at that load.
C1_TablesAreLatestPresent ==
    (Finished("m1") /\ res["m1"].status = "ok")
        => TablesIn(store) = Present(lastLoad.dir)

\* C1, amended: the tables of the store are exactly the names whose file some
\* load pass so far found present and parsed; a load that comes to its end
\* leaves every present file's content in its table, and leaves the table of
\* every missing file as the pass found it, be it absent or an earlier
\* load's content.
C1_TablesAreEverLoaded ==
    /\ TablesIn(store) = written
    /\ (Finished("m1") /\ res["m1"].status = "ok") =>
          \A t \in Tables :
              IF t \in Present(lastLoad.dir)
              THEN store[t] = read_csv(lastLoad.dir[csv_files[t]])
              ELSE store[t] = startStore[t]

\* a finished load that found a file missing whose table an earlier load made
C1_Witness ==
    /\ Finished("m1") /\ res["m1"].status = "ok"
    /\ \E t \in Tables \ Present(lastLoad.dir) : store[t] # NoTable

\* C2: a load of the directory the load before it found leaves the store as
\* that load left it: the same tables, with the same columns and rows.
C2_Idempotent ==
    [][ ( /\ call["m1"].op = "create_database"
          /\ call'["m1"] = Idle
          /\ lastLoad.done
          /\ lastLoad.dir = dir )
        => store' = lastLoad.store ]_vars

\* a second load in a row of a directory with a record to load, the first of
\* the two having found other content in the store
C2_Witness ==
    /\ Finished("m1")
    /\ lastLoad.repeat
    /\ \E t \in Tables : store[t] # NoTable /\ Len(store[t].rows) > 0
    /\ \E t \in Tables : store[t] # NoTable /\ t \notin Present(dir)

\* C4: when the file of table T cannot be parsed, create_database raises; the
\* tables before T in map order hold what this pass wrote, T and the tables
\* after it are as the pass found them.
C4_ParseFailure ==
    (Finished("m1") /\ res["m1"].status = "ParseError") =>
        LET T == res["m1"].at
            d == lastLoad.dir
        IN  /\ d[csv_files[T]] # NoFile
            /\ read_csv(d[csv_files[T]]) = ParseError
            /\ \A t \in Tables :
                   IF Position(t) < Position(T) /\ t \in Present(d)
                   THEN store[t] = read_csv(d[csv_files[t]])
                   ELSE store[t] = startStore[t]

\* a pass that failed at a table an earlier load had made, after replacing the
\* content of a table before it
C4_Witness ==
    /\ Finished("m1") /\ res["m1"].status = "ParseError"
    /\ store[res["m1"].at] # NoTable
    /\ \E t \in Tables :
          /\ Position(t) < Position(res["m1"].at)
          /\ store[t] # startStore[t]

(***************************************************************************)
(* Properties of one manager's lifetime.                                   *)
(***************************************************************************)
QueryStep(m) == (\E q \in Queries : ExecuteQuery(m, q)) \/ GetTableInfo(m)

Failed(r) == r.out.status # "ok"

\* C3: a missing file never ends a load.  A load raises only at a file that
\* is there and cannot be parsed; a load of a store that was empty, once at
\* its end, has visited the six entries in map order and left exactly the
\* present files' tables; a table that was absent before the latest load and
\* whose file is missing makes get_table_info and every query reading it
\* raise.
C3_MissingFileTolerated ==
    /\ (Finished("m1") /\ res["m1"].status = "ParseError") =>
          /\ dir[csv_files[res["m1"].at]] # NoFile
          /\ read_csv(dir[csv_files[res["m1"].at]]) = ParseError
    /\ (Finished("m1") /\ res["m1"].status = "ok") =>
          /\ visited = TableOrder
          /\ TablesIn(startStore) = {} =>
                /\ TablesIn(store) = Present(dir)
                /\ \A t \in Present(dir) : store[t] = read_csv(dir[csv_files[t]])
    /\ (call["m1"] = Idle /\ loads > 0 /\ res["m1"].op = "get_table_info") =>
          ( (res["m1"].table \notin Present(dir)
                /\ startStore[res["m1"].table] = NoTable)
            => Failed(res["m1"]) )
    /\ (call["m1"] = Idle /\ loads > 0 /\ res["m1"].op = "execute_query") =>
          ( (\E t \in res["m1"].query :
                t \notin Present(dir) /\ startStore[t] = NoTable)
            => Failed(res["m1"]) )

\* after one load of a new store that skipped a missing file and loaded a
\* file after it, get_table_info on the missing file's table has raised
C3_Witness ==
    /\ loads = 1 /\ TablesIn(startStore) = {} /\ visited = TableOrder
    /\ call["m1"] = Idle
    /\ res["m1"].op = "get_table_info"
    /\ res["m1"].out.status = "NoSuchTable"
    /\ res["m1"].table \notin Present(dir)
    /\ \E t \in Present(dir) :
          /\ Position(res["m1"].table) < Position(t)
          /\ store[t] = read_csv(dir[csv_files[t]])

\* C8: execute_query and get_table_info connect only when the manager holds
\* no connection object, and otherwise leave the connection as it is; over
\* the manager's lifetime they connect at most once; they never change the
\* store.
C8_LazyConnectOnce ==
    /\ [][ QueryStep("m1") =>
             /\ store' = store
             /\ (connects'["m1"] # connects["m1"]) =>
                   /\ conn["m1"] = "none"
                   /\ conn'["m1"] = "open"
                   /\ connects'["m1"] = connects["m1"] + 1
             /\ (conn["m1"] # "none") =>
                   /\ conn'["m1"] = conn["m1"]
                   /\ connects'["m1"] = connects["m1"] ]_vars
    /\ [](connects["m1"] <= loads + 1)

\* get_table_info has run its three statements on the one connection that
\* its first statement opened
C8_Witness ==
    /\ loads = 0
    /\ connects["m1"] = 1
    /\ conn["m1"] = "open"
    /\ call["m1"] = Idle
    /\ res["m1"].op = "get_table_info"
    /\ res["m1"].out.status = "ok"

\* C10: close leaves the manager holding the closed connection; from then on
\* execute_query and get_table_info raise without connecting, until
\* create_database connects anew; close on a manager that holds no connection
\* changes nothing.
C10_ClosedUntilCreate ==
    [][ /\ (QueryStep("m1") /\ conn["m1"] = "closed") =>
              /\ conn'["m1"] = "closed"
              /\ connects'["m1"] = connects["m1"]
              /\ call'["m1"] = Idle
              /\ res'["m1"].out.status = "ClosedConnection"
        /\ Close("m1") =>
              /\ conn'["m1"] = (IF conn["m1"] = "none" THEN "none" ELSE "closed")
              /\ store' = store
        /\ (CreateDatabaseBegin("m1") /\ conn["m1"] = "closed") =>
              /\ conn'["m1"] = "open"
              /\ connects'["m1"] = connects["m1"] + 1 ]_vars

\* a query has raised on the closed connection of a manager that had loaded
C10_Witness ==
    /\ conn["m1"] = "closed"
    /\ loads > 0
    /\ res["m1"].op = "execute_query"
    /\ res["m1"].out.status = "ClosedConnection"
    /\ connects["m1"] = loads

(***************************************************************************)
(* Properties of a reader beside the loader.                               *)
(***************************************************************************)
\* C9: no transaction spans a load.  A statement of another process reads
\* every table as the store holds it at that moment, in the middle of a pass
\* as at any other time.
C9_NoIsolation ==
    [][ \A q \in ReaderQueries :
          ExecuteQuery("m2", q) =>
             IF \E t \in q : store[t] = NoTable
             THEN res'["m2"].out.status = "NoSuchTable"
             ELSE /\ res'["m2"].out.status = "ok"
                  /\ \A t \in q : res'["m2"].out.view[t] = store[t] ]_vars

\* in the middle of a pass the reader holds a result in which one table has
\* the content this pass wrote and another the content of the load before,
\* which this pass is still to replace
C9_Witness ==
    /\ call["m1"].op = "create_database"
    /\ res["m2"].op = "execute_query"
    /\ res["m2"].out.status = "ok"
    /\ \E t1, t2 \in res["m2"].query :
          /\ Position(t1) < call["m1"].i
          /\ call["m1"].i <= Position(t2)
          /\ t1 \in Present(dir) /\ t2 \in Present(dir)
          /\ res["m2"].out.view[t1] = read_csv(dir[csv_files[t1]])
          /\ res["m2"].out.view[t1] # startStore[t1]
          /\ res["m2"].out.view[t2] = startStore[t2]
          /\ read_csv(dir[csv_files[t2]]) # ParseError
          /\ res["m2"].out.view[t2] # read_csv(dir[csv_files[t2]])

(***************************************************************************)
(* Properties of the catalog's queries.                                    *)
(***************************************************************************)
Capped == { "top_grants_by_funding", "top_performers" }

\* C5, as stated: a query given the limit K, whatever integer K is, returns
\* at most K rows.
C5_AtMostLimitRows ==
    answer.query \in Capped => Len(answer.rows) <= answer.limit

\* C5, amended: a query given a limit K that is not negative returns at most
\* K rows.
C5_AtMostLimitRowsFromZero ==
    (answer.query \in Capped /\ answer.limit >= 0)
        => Len(answer.rows) <= answer.limit

\* top_performers, given the limit 1, has returned one row of the two that
\* qualify
C5_Witness ==
    /\ answer.query = "top_performers"
    /\ answer.limit = 1
    /\ Len(answer.rows) = 1
    /\ Len(db.non_profits_final) = 2
    /\ \A i \in 1..2 : db.non_profits_final[i].impact_score_numeric # NULL

\* C6: top_performers, before its cap, has a row with a NULL confidence_score
\* for every organization with an impact score and no quality row of its EIN;
\* every row of high_risk_organizations joins an organization to an anomaly
\* row of its EIN with is_anomalous = 1 and risk_level = 'high', so an
\* organization with no anomaly row of its EIN has no row there.
C6_OuterAndInnerJoin ==
    LET nf == db.non_profits_final
        nq == db.nonprofit_quality
        na == db.nonprofit_anomalies
    IN  /\ (answer.query = "top_performers" /\ Len(answer.rows) < answer.limit) =>
              \A i \in DOMAIN nf :
                 ( /\ nf[i].impact_score_numeric # NULL
                   /\ \A j \in DOMAIN nq : nf[i].EIN = NULL \/ nq[j].EIN # nf[i].EIN )
                 => \E n \in DOMAIN answer.rows :
                       /\ answer.rows[n].nf_row = i
                       /\ answer.rows[n].confidence_score = NULL
        /\ answer.query = "high_risk_organizations" =>
              /\ \A n \in DOMAIN answer.rows :
                    LET a == na[answer.rows[n].na_row]
                        o == nf[answer.rows[n].nf_row]
                    IN  /\ a.is_anomalous = Val(1)
                        /\ a.risk_level = Val("high")
                        /\ a.EIN = o.EIN
                        /\ a.EIN # NULL
              /\ \A i \in DOMAIN nf :
                    (\A j \in DOMAIN na : na[j].EIN # nf[i].EIN)
                    => \A n \in DOMAIN answer.rows : answer.rows[n].nf_row # i

\* top_performers has returned, beside an organization joined to its quality
\* row, one that no quality row matches
C6_Witness ==
    /\ answer.query = "top_performers"
    /\ \E n \in DOMAIN answer.rows : answer.rows[n].nq_row = 0
    /\ \E n \in DOMAIN answer.rows : answer.rows[n].nq_row # 0

\* C7: data_quality_overview returns one row for each value of data_quality,
\* the row of 'high' first, then the row of 'medium', then the row of 'low',
\* the rows of all other values, NULL among them, after these.
C7_TierOrder ==
    answer.query = "data_quality_overview" =>
        LET nq      == db.nonprofit_quality
            rows    == answer.rows
            values  == { nq[i].data_quality : i \in DOMAIN nq }
            has(v)  == IF v \in values THEN 1 ELSE 0
            at(v)   == { n \in DOMAIN rows : rows[n].data_quality = v }
        IN  /\ Len(rows) = Cardinality(values)
            /\ \A v \in values : Cardinality(at(v)) = 1
            /\ at(Val("high")) \subseteq { 1 }
            /\ at(Val("medium")) \subseteq { 1 + has(Val("high")) }
            /\ at(Val("low")) \subseteq { 1 + has(Val("high")) + has(Val("medium")) }
            /\ \A n \in DOMAIN rows :
                  rows[n].org_count =
                      Cardinality({ i \in DOMAIN nq : nq[i].data_quality = rows[n].data_quality })

\* rows inserted in the order unknown, low, medium, high come back as high,
\* medium, low, unknown
C7_Witness ==
    /\ answer.query = "data_quality_overview"
    /\ Len(db.nonprofit_quality) = 4
    /\ db.nonprofit_quality[1].data_quality = Val("unknown")
    /\ db.nonprofit_quality[2].data_quality = Val("low")
    /\ db.nonprofit_quality[3].data_quality = Val("medium")
    /\ db.nonprofit_quality[4].data_quality = Val("high")
    /\ Len(answer.rows) = 4
    /\ answer.rows[1].data_quality = Val("high")
    /\ answer.rows[2].data_quality = Val("medium")
    /\ answer.rows[3].data_quality = Val("low")
    /\ answer.rows[4].data_quality = Val("unknown")

====
